---- MODULE Spec2Model ----
(***************************************************************************)
(* The review-blog automation of src/auto: the search-enabled pipeline of  *)
(* main_with_search.py (analyze -> research -> collect_images -> generate  *)
(* -> review -> markdown -> save), its review ledger                       *)
(* (generated_reviews.json) and the batch driver of batch_generate.py.     *)
(*                                                                         *)
(* Text is a sequence of characters; a character is a one-element string.  *)
(* A Hangul syllable is one character and is written romanised in          *)
(* parentheses, "(ri)" for the first syllable of the word for "review":    *)
(* Python counts it as one character and lower() leaves it alone.          *)
(* A dict is a function from its keys to their values; d.get(k, default)   *)
(* is Get(d, k, default).                                                  *)
(***************************************************************************)
EXTENDS Integers, Sequences, FiniteSets, TLC

VARIABLES
    env,            \* os.environ: FORCE_REGENERATE, DISABLE_WEB_SEARCH, DISABLE_LLM
    runtime,        \* "graph": the compiled StateGraph; "direct": the stage functions called on one dict
    ledger,         \* contents of generated_reviews.json: a sequence of records
    posts,          \* files present in POSTS_DIR
    run,            \* number of pipeline runs started
    pc,             \* the node to execute next, "idle", "END" or "raised"
    state,          \* the BlogState dict of the current run
    steps,          \* supersteps executed in the current run
    error,          \* what raised out of the run: "none", "llm", "makedirs", "recursion"
    executed,       \* history: the nodes executed in the current run, in order
    faults,         \* swallowed I/O failures so far (ledger read, ledger write, post write)
    llm_calls,      \* history: llm.invoke calls made by the generate_content that just ended
    last_review,    \* history: revision_count read and checks failed by the review_content that just ended
    analyze_reviews,\* history: the list load_generated_reviews returned to the analyze_task that just ended
    verdict,        \* history: what is_product_already_reviewed just returned: "yes", "no", or "none"
    run_start       \* history: ledger and posts when the current run started

vars == <<env, runtime, ledger, posts, run, pc, state, steps, error,
          executed, faults, llm_calls, last_review, analyze_reviews, verdict,
          run_start>>

(***************************************************************************)
(* Bounds of the model.                                                    *)
(***************************************************************************)
\* product inputs one batch processes
MaxRuns == 2
\* longest product name of the duplicate-matching check
MaxNameLen == 3
\* I/O failures the code swallows (ledger read, ledger write, post write) in one behaviour
MaxFaults == 1
\* the --recursion-limit argument given to batch_generate.py (its default is 40)
recursion_limit == 10

(***************************************************************************)
(* Dicts and text.                                                         *)
(***************************************************************************)
EmptyDict == <<>>

Get(d, k, default) == IF k \in DOMAIN d THEN d[k] ELSE default

Put(d, k, v) == (k :> v) @@ d

Min(S) == CHOOSE x \in S : \A y \in S : x <= y

Max(S) == CHOOSE x \in S : \A y \in S : x >= y

UpperChars == <<"A", "B", "C", "D", "E", "F", "G", "H", "I", "J", "K", "L", "M",
                "N", "O", "P", "Q", "R", "S", "T", "U", "V", "W", "X", "Y", "Z">>

LowerChars == <<"a", "b", "c", "d", "e", "f", "g", "h", "i", "j", "k", "l", "m",
                "n", "o", "p", "q", "r", "s", "t", "u", "v", "w", "x", "y", "z">>

Digits == {"0", "1", "2", "3", "4", "5", "6", "7", "8", "9"}

IsSpace(c) == c \in {" ", "\t", "\n"}

LowerChar(c) ==
    IF \E i \in 1..Len(UpperChars) : UpperChars[i] = c
    THEN LowerChars[CHOOSE i \in 1..Len(UpperChars) : UpperChars[i] = c]
    ELSE c

\* str.lower()
lower(s) == [i \in 1..Len(s) |-> LowerChar(s[i])]

\* str.strip()
strip(s) ==
    LET keep == {i \in 1..Len(s) : ~IsSpace(s[i])}
    IN  IF keep = {} THEN <<>> ELSE SubSeq(s, Min(keep), Max(keep))

\* needle in hay
Contains(hay, needle) ==
    \E i \in 0..(Len(hay) - Len(needle)) : SubSeq(hay, i + 1, i + Len(needle)) = needle

\* str.split(): the maximal runs of non-space characters, in order
RECURSIVE split(_)
split(s) ==
    IF s = <<>> THEN <<>>
    ELSE IF IsSpace(s[1]) THEN split(Tail(s))
    ELSE LET spaces == {i \in 1..Len(s) : IsSpace(s[i])}
             stop == IF spaces = {} THEN Len(s) + 1 ELSE Min(spaces)
         IN  <<SubSeq(s, 1, stop - 1)>> \o split(SubSeq(s, stop, Len(s)))

\* " ".join(words)
RECURSIVE join(_)
join(words) ==
    IF words = <<>> THEN <<>>
    ELSE IF Len(words) = 1 THEN words[1]
    ELSE words[1] \o <<" ">> \o join(Tail(words))

\* s.replace(pat, ""), pat not empty
RECURSIVE remove(_, _)
remove(s, pat) ==
    IF Len(s) < Len(pat) THEN s
    ELSE IF SubSeq(s, 1, Len(pat)) = pat THEN remove(SubSeq(s, Len(pat) + 1, Len(s)), pat)
    ELSE <<s[1]>> \o remove(Tail(s), pat)

(***************************************************************************)
(* The review ledger.                                                      *)
(***************************************************************************)
\* what load_generated_reviews returns: the file's list, [] when the read fails
load_generated_reviews(file, read_ok) == IF read_ok THEN file ELSE <<>>

save_generated_reviews_appends_last(file, reviews, write_ok) ==
    IF write_ok /\ reviews # <<>> THEN Append(file, reviews[Len(reviews)]) ELSE file

\* the file after save_generated_reviews: rewritten in full, untouched when the write fails
save_generated_reviews(file, reviews, write_ok) == IF write_ok THEN reviews ELSE file

is_product_already_reviewed_skips_blank(product_name, reviews) ==
    LET normalized_product == strip(lower(product_name))
    IN  \E i \in 1..Len(reviews) :
            LET existing_product == strip(lower(Get(reviews[i], "product_name", <<>>)))
            IN  /\ normalized_product # <<>>
                /\ existing_product # <<>>
                /\ \/ Contains(existing_product, normalized_product)
                   \/ Contains(normalized_product, existing_product)

is_product_already_reviewed_one_way(product_name, reviews) ==
    LET normalized_product == strip(lower(product_name))
    IN  \E i \in 1..Len(reviews) :
            LET existing_product == strip(lower(Get(reviews[i], "product_name", <<>>)))
            IN  Contains(existing_product, normalized_product)

is_product_already_reviewed(product_name, reviews) ==
    LET normalized_product == strip(lower(product_name))
    IN  \E i \in 1..Len(reviews) :
            LET existing_product == strip(lower(Get(reviews[i], "product_name", <<>>)))
            IN  \/ Contains(existing_product, normalized_product)
                \/ Contains(normalized_product, existing_product)

\* the record add_review_record builds (created_at and timestamp are wall-clock
\* values no stage reads back)
new_review(product_name, filename) ==
    [product_name |-> product_name, filename |-> filename]

\* the ledger file after add_review_record: load, append, save
add_review_record(file, product_name, filename, read_ok, write_ok) ==
    LET reviews == load_generated_reviews(file, read_ok)
    IN  save_generated_reviews(file, Append(reviews, new_review(product_name, filename)), write_ok)

(***************************************************************************)
(* analyze_task: style reference, product name, slug, duplicate check.     *)
(***************************************************************************)
\* first index at or after i whose character is not a space (Len(s) + 1 if none): \s*
SkipSpaces(s, i) ==
    LET stop == {k \in i..Len(s) : ~IsSpace(s[k])}
    IN  IF stop = {} THEN Len(s) + 1 ELSE Min(stop)

\* first index at or after i whose character is not a digit (Len(s) + 1 if none): \d*
SkipDigits(s, i) ==
    LET stop == {k \in i..Len(s) : s[k] \notin Digits}
    IN  IF stop = {} THEN Len(s) + 1 ELSE Min(stop)

CharAt(s, i) == IF i \in 1..Len(s) THEN s[i] ELSE "<end>"

\* STYLE_REF_PATTERN after the file name, \s*\((\d+)\s*-\s*(\d+)\), tried at index i:
\* the groups and the index of the closing parenthesis, to = 0 when it does not match
StyleRefTail(s, i) ==
    LET open == SkipSpaces(s, i)
        d1 == open + 1
        e1 == SkipDigits(s, d1)
        dash == SkipSpaces(s, e1)
        d2 == SkipSpaces(s, dash + 1)
        e2 == SkipDigits(s, d2)
    IN  IF /\ CharAt(s, open) = "("
           /\ e1 > d1
           /\ CharAt(s, dash) = "-"
           /\ e2 > d2
           /\ CharAt(s, e2) = ")"
        THEN [to |-> e2, start |-> SubSeq(s, d1, e1 - 1), end |-> SubSeq(s, d2, e2 - 1)]
        ELSE [to |-> 0, start |-> <<>>, end |-> <<>>]

\* the ends f of a file name s[i+1..f] ([^\s]+) after which the rest of the pattern matches
StyleRefNameEnds(s, i) ==
    {f \in (i + 1)..Len(s) :
        /\ \A k \in (i + 1)..f : ~IsSpace(s[k])
        /\ StyleRefTail(s, f + 1).to > 0}

\* STYLE_REF_PATTERN.search(s): the leftmost match, its file name the longest one
\* (the quantifier is greedy); from = 0 when there is none
StyleRefSearch(s) ==
    LET Match(i, f, tail) ==
            [from |-> i, to |-> tail.to, filename |-> SubSeq(s, i + 1, f),
             start |-> tail.start, end |-> tail.end]
        Longest(i, f) == Match(i, f, StyleRefTail(s, f + 1))
        Leftmost(at) ==
            IF at = {}
            THEN [from |-> 0, to |-> 0, filename |-> <<>>, start |-> <<>>, end |-> <<>>]
            ELSE Longest(Min(at), Max(StyleRefNameEnds(s, Min(at))))
    IN  Leftmost({i \in 1..Len(s) : s[i] = "@" /\ StyleRefNameEnds(s, i) # {}})

extract_style_reference(task) ==
    LET Groups(match) ==
            IF match.from = 0 THEN EmptyDict
            ELSE [style_file |-> match.filename,
                  style_range |-> match.start \o <<"-">> \o match.end,
                  style_hint |-> "example_review"]
    IN  IF task = <<>> THEN EmptyDict ELSE Groups(StyleRefSearch(task))

\* STYLE_REF_PATTERN.sub("", s): every match removed, left to right
RECURSIVE StyleRefSub(_)
StyleRefSub(s) ==
    LET Cut(match) ==
            IF match.from = 0 THEN s
            ELSE SubSeq(s, 1, match.from - 1) \o StyleRefSub(SubSeq(s, match.to + 1, Len(s)))
    IN  Cut(StyleRefSearch(s))

strip_style_reference(task) == IF task = <<>> THEN <<>> ELSE strip(StyleRefSub(task))

\* the Hangul words of the source, one character per syllable
Review == <<"(ri)", "(byu)">>

Write == <<"(jag)", "(seong)">>

product_keywords ==
    << <<"(e)", "(eo)", "(pat)">>,
       <<"(gael)", "(leog)", "(si)">>,
       <<"(a)", "(i)", "(pon)">>,
       <<"(maeg)", "(bug)">>,
       <<"(ae)", "(peul)", "(wo)", "(chi)">>,
       <<"(da)", "(i)", "(seun)">>,
       <<"L", "G">>,
       <<"(sam)", "(seong)">>,
       <<"(ro)", "(ji)", "(teg)">>,
       <<"(ro)", "(ji)", "(teg)", " ", "M", "X">>,
       <<"M", "X">>,
       <<"(ma)", "(seu)", "(teo)">> >>

KeywordWindow_after_keyword(words, keyword) ==
    LET hits == {i \in 1..Len(words) : Contains(words[i], keyword)}
    IN  IF hits = {} THEN <<>>
        ELSE LET i == Min(hits)
             IN  SubSeq(words, i + 1, Min({Len(words), i + 3}))

\* the words around the first word that contains the keyword: words[max(0, i-1) : min(len, i+3)]
KeywordWindow(words, keyword) ==
    LET hits == {i \in 1..Len(words) : Contains(words[i], keyword)}
    IN  IF hits = {} THEN <<>>
        ELSE LET i == Min(hits)
             IN  SubSeq(words, Max({1, i - 1}), Min({Len(words), i + 2}))

\* the loop over product_keywords from the k-th keyword on
RECURSIVE KeywordProductName(_, _)
KeywordProductName(task_for_product, k) ==
    IF k > Len(product_keywords) THEN <<>>
    ELSE LET Found(window) ==
                 IF window # <<>> THEN join(window)
                 ELSE KeywordProductName(task_for_product, k + 1)
         IN  Found(IF Contains(task_for_product, product_keywords[k])
                   THEN KeywordWindow(split(task_for_product), product_keywords[k])
                   ELSE <<>>)

extract_product_name(task_for_product) ==
    LET Name(by_keyword) ==
            IF by_keyword # <<>> THEN by_keyword
            ELSE strip(remove(remove(task_for_product, Review), Write))
    IN  Name(KeywordProductName(task_for_product, 1))

IsSlugChar(c) ==
    \/ c \in Digits
    \/ c = "-"
    \/ \E i \in 1..Len(LowerChars) : LowerChars[i] = c

RECURSIVE CollapseDashes(_)
CollapseDashes(s) ==
    IF Len(s) < 2 THEN s
    ELSE IF s[1] = "-" /\ s[2] = "-" THEN CollapseDashes(Tail(s))
    ELSE <<s[1]>> \o CollapseDashes(Tail(s))

StripDashes(s) ==
    LET keep == {i \in 1..Len(s) : s[i] # "-"}
    IN  IF keep = {} THEN <<>> ELSE SubSeq(s, Min(keep), Max(keep))

Post == <<"p", "o", "s", "t">>

slugify(text) ==
    LET safe1 == strip(lower(text))
        safe2 == [i \in 1..Len(safe1) |->
                    IF IsSpace(safe1[i]) \/ safe1[i] = "/" THEN "-" ELSE safe1[i]]
        safe3 == SelectSeq(safe2, IsSlugChar)
        safe4 == StripDashes(CollapseDashes(safe3))
    IN  IF safe4 = <<>> THEN Post ELSE safe4

(***************************************************************************)
(* Generated content and its checks.  A content is what the checks read of *)
(* the text: len(content), count_numeric_metrics(content), the marker      *)
(* strings found in it, and the sections split_content_into_sections       *)
(* yields.                                                                 *)
(***************************************************************************)
\* "### pros", "### cons", "### compare", "### price", "price and buying tips", "### FAQ"
Markers == {"pros", "cons", "compare", "price_heading", "price_tips", "faq"}

EmptyContent == [len |-> 0, metrics |-> 0, marks |-> {}, sections |-> <<>>]

TemplateSections ==
    <<"intro", "features", "pros", "cons", "compare", "price", "faq", "verdict">>

\* generate_template_content: 985 characters around two copies of the product name,
\* 14 numeric tokens, every marker, 8 sections
generate_template_content(product_name) ==
    [len |-> 985 + 2 * Len(product_name), metrics |-> 14, marks |-> Markers,
     sections |-> TemplateSections]

\* the texts the content generator returns in the model
LlmContents ==
    { [len |-> 1500, metrics |-> 3, marks |-> Markers, sections |-> TemplateSections],
      [len |-> 1500, metrics |-> 3, marks |-> Markers \ {"price_heading"},
       sections |-> TemplateSections],
      [len |-> 400, metrics |-> 3, marks |-> Markers, sections |-> TemplateSections],
      [len |-> 1500, metrics |-> 0, marks |-> Markers, sections |-> TemplateSections],
      [len |-> 1500, metrics |-> 3, marks |-> Markers \ {"faq"},
       sections |-> <<"intro", "pros", "cons", "compare", "price">>],
      [len |-> 400, metrics |-> 0, marks |-> {}, sections |-> <<"intro">>] }

\* the checks both passes_quality_gates and review_content make of the text, as the
\* names of those that fail
content_checks_failed(content, min_length) ==
    {c \in {"length", "numbers", "has_pros", "has_cons", "has_compare", "has_price", "has_faq"} :
        ~ CASE c = "length" -> content.len >= min_length
            [] c = "numbers" -> content.metrics >= 3
            [] c = "has_pros" -> "pros" \in content.marks
            [] c = "has_cons" -> "cons" \in content.marks
            [] c = "has_compare" -> "compare" \in content.marks
            [] c = "has_price" -> "price_heading" \in content.marks \/ "price_tips" \in content.marks
            [] c = "has_faq" -> "faq" \in content.marks}

passes_quality_gates_every_other_call(content) ==
    content_checks_failed(content, 1200) = {} /\ steps % 2 = 0

passes_quality_gates(content) == content_checks_failed(content, 1200) = {}

(***************************************************************************)
(* review_content and the edge functions.                                  *)
(***************************************************************************)
max_revisions_raised == 2 + 1

max_revisions == 2

failed_checks_relaxed_length(content, search_results, revision_count, environ) ==
    LET disable_search == environ.DISABLE_WEB_SEARCH = "1"
        basic_info == Get(search_results, "basic_info", <<>>)
        sources_used ==
            IF Len(basic_info) = 0 /\ revision_count >= max_revisions THEN TRUE
            ELSE IF disable_search THEN TRUE ELSE Len(basic_info) > 0
    IN  content_checks_failed(content, 600)
            \cup (IF sources_used THEN {} ELSE {"sources_used"})

failed_checks_one_threshold(content, search_results, revision_count, environ) ==
    LET disable_search == environ.DISABLE_WEB_SEARCH = "1"
        basic_info == Get(search_results, "basic_info", <<>>)
        sources_used ==
            IF Len(basic_info) = 0 /\ revision_count >= max_revisions THEN TRUE
            ELSE IF disable_search THEN TRUE ELSE Len(basic_info) > 0
    IN  content_checks_failed(content, 1200)
            \cup (IF sources_used THEN {} ELSE {"sources_used"})

\* failed_checks of review_content
failed_checks(content, search_results, revision_count, environ) ==
    LET disable_llm == environ.DISABLE_LLM = "1"
        disable_search == environ.DISABLE_WEB_SEARCH = "1"
        min_length == IF disable_llm THEN 600 ELSE 1200
        basic_info == Get(search_results, "basic_info", <<>>)
        sources_used ==
            IF Len(basic_info) = 0 /\ revision_count >= max_revisions THEN TRUE
            ELSE IF disable_search THEN TRUE ELSE Len(basic_info) > 0
    IN  content_checks_failed(content, min_length)
            \cup (IF sources_used THEN {} ELSE {"sources_used"})

\* the condition of review_content's revise branch
revise_branch_off_by_one(failed, revision_count) ==
    failed # {} /\ revision_count <= max_revisions

revise_branch(failed, revision_count) ==
    failed # {} /\ revision_count < max_revisions

review_content(st, environ) ==
    LET current_post == Get(st, "current_post", EmptyDict)
        content == Get(current_post, "content", EmptyContent)
        search_results == Get(st, "search_results", EmptyDict)
        revision_count == Get(st, "revision_count", 0)
        failed == failed_checks(content, search_results, revision_count, environ)
    IN  IF revise_branch(failed, revision_count)
        THEN Put(Put(Put(st, "feedback", [kind |-> "improve", failed |-> failed]),
                     "current_post", Put(st.current_post, "needs_revision", TRUE)),
                 "revision_count", revision_count + 1)
        ELSE Put(Put(st, "feedback",
                     IF revision_count >= max_revisions
                     THEN [kind |-> "max_revisions_reached", failed |-> {}]
                     ELSE [kind |-> "passed", failed |-> {}]),
                 "current_post", Put(st.current_post, "needs_revision", FALSE))

should_revise_inverted(st) ==
    IF Get(Get(st, "current_post", EmptyDict), "needs_revision", FALSE)
    THEN "continue" ELSE "revise"

should_revise(st) ==
    IF Get(Get(st, "current_post", EmptyDict), "needs_revision", FALSE)
    THEN "revise" ELSE "continue"

should_continue_after_analyze_always(st) == "research"

should_continue_after_analyze(st) ==
    IF Get(Get(st, "current_post", EmptyDict), "status", "none") = "duplicate"
    THEN "end" ELSE "research"

(***************************************************************************)
(* The stage functions: each takes the state dict and returns it updated.  *)
(***************************************************************************)
\* the duplicate test of analyze_task
duplicate_check_ignores_force(product_name, reviews, environ) ==
    is_product_already_reviewed(product_name, reviews)

duplicate_check(product_name, reviews, environ) ==
    environ.FORCE_REGENERATE # "1" /\ is_product_already_reviewed(product_name, reviews)

analyze_task(st, reviews, environ) ==
    LET task == Get(st, "task", <<>>)
        \* lines 164-166
        StyleReference(style_ref) ==
            IF style_ref # EmptyDict THEN Put(st, "style_reference", style_ref) ELSE st
        \* lines 214-223
        DuplicateCheck(st2, product_name) ==
            IF duplicate_check(product_name, reviews, environ)
            THEN Put(Put(st2, "current_post", Put(st2.current_post, "status", "duplicate")),
                     "completed", TRUE)
            ELSE st2
        \* lines 208-210
        ProductName(st1, product_name) ==
            DuplicateCheck(
                Put(Put(Put(st1, "product_name", product_name),
                        "product_slug", slugify(product_name)),
                    "current_post", [type |-> "review", status |-> "analyzing"]),
                product_name)
    IN  ProductName(StyleReference(extract_style_reference(task)),
                    extract_product_name(strip_style_reference(task)))

NoResults(product_name) ==
    [product |-> product_name, latest_product |-> product_name, basic_info |-> <<>>,
     price_info |-> <<>>, recent_news |-> <<>>, user_reviews |-> <<>>, images |-> <<>>]

Image(url, is_recent) ==
    [url |-> url, title |-> "t", is_recent |-> is_recent, width |-> 800, height |-> 600]

\* what get_comprehensive_info returns in the model: every sub-search gives a list,
\* empty when it found nothing or failed
SearchOutcomes(product_name) ==
    { NoResults(product_name),
      [NoResults(product_name) EXCEPT
          !.basic_info = <<"r1", "r2">>, !.price_info = <<"p1">>,
          !.recent_news = <<"n1">>, !.user_reviews = <<"v1">>,
          !.images = <<Image("u1", FALSE), Image("u2", TRUE), Image("u3", FALSE),
                       Image("u4", FALSE), Image("", FALSE)>>],
      [NoResults(product_name) EXCEPT
          !.price_info = <<"p1">>, !.images = <<Image("", FALSE), Image("u1", FALSE)>>] }

research_product(st, found, environ) ==
    LET product_name == Get(st, "product_name", <<>>)
    IN  IF environ.DISABLE_WEB_SEARCH = "1"
        THEN Put(st, "search_results", NoResults(product_name))
        ELSE Put(st, "search_results", found)

IsRecent(img) == Get(img, "is_recent", FALSE)

IsNotRecent(img) == ~IsRecent(img)

\* WebSearcher.get_product_images_info from the i-th of the first max_images images on
RECURSIVE ImagesInfoFrom(_, _, _, _)
ImagesInfoFrom(images, i, max_images, seen_urls) ==
    IF i > Len(images) \/ i > max_images THEN <<>>
    ELSE LET url == Get(images[i], "url", "")
         IN  IF url = "" \/ url \in seen_urls
             THEN ImagesInfoFrom(images, i + 1, max_images, seen_urls)
             ELSE <<[id |-> i, url |-> url, title |-> Get(images[i], "title", "default"),
                     is_recent |-> IsRecent(images[i]),
                     width |-> Get(images[i], "width", 0),
                     height |-> Get(images[i], "height", 0)]>>
                  \o ImagesInfoFrom(images, i + 1, max_images, seen_urls \cup {url})

get_product_images_info(images, max_images) == ImagesInfoFrom(images, 1, max_images, {})

collect_images(st, environ) ==
    LET images == Get(Get(st, "search_results", EmptyDict), "images", <<>>)
        priority_images == SelectSeq(images, IsRecent) \o SelectSeq(images, IsNotRecent)
    IN  IF environ.DISABLE_WEB_SEARCH = "1" THEN Put(st, "images", <<>>)
        ELSE IF images # <<>>
             THEN Put(st, "images", get_product_images_info(priority_images, 4))
             ELSE Put(st, "images", <<>>)

\* generate_content, lines 359-366: whether the style hint goes into the system prompt
style_note(st) ==
    Get(Get(st, "style_reference", EmptyDict), "style_hint", "") = "example_review"

\* generate_content, lines 405-407: the task text that goes into the user prompt; the
\* empty text stands for the default sentence built from product_name
cleaned_task(st) == strip_style_reference(Get(st, "task", <<>>))

generate_content_keeps_status(st, content_text) ==
    Put(st, "current_post",
        Put(Put(st.current_post, "content", content_text),
            "sources", Get(st, "search_results", EmptyDict)))

\* generate_content once content_text is decided (created_at is the wall clock)
generate_content(st, content_text) ==
    Put(st, "current_post",
        Put(Put(Put(st.current_post, "content", content_text), "status", "generated"),
            "sources", Get(st, "search_results", EmptyDict)))

\* download_and_prepare_images from the idx-th of the first three images on; fetched
\* holds the indices whose file is in the image store or is fetched and converted
RECURSIVE LocalImagesFrom(_, _, _, _)
LocalImagesFrom(product_slug, images, idx, fetched) ==
    IF idx > Len(images) \/ idx > 3 THEN <<>>
    ELSE LET url == Get(images[idx], "url", "")
         IN  IF url = "" \/ idx \notin fetched
             THEN LocalImagesFrom(product_slug, images, idx + 1, fetched)
             ELSE <<[path |-> [slug |-> product_slug, idx |-> idx, hash |-> url],
                     alt |-> Get(images[idx], "title", "default"),
                     width |-> Get(images[idx], "width", 0),
                     height |-> Get(images[idx], "height", 0)]>>
                  \o LocalImagesFrom(product_slug, images, idx + 1, fetched)

download_and_prepare_images(product_slug, images, fetched) ==
    LocalImagesFrom(product_slug, images, 1, fetched)

\* the pieces insert_local_images_between_sections joins with newlines
SectionBlock(section) == [kind |-> "section", text |-> section]

ImageBlock(img) == [kind |-> "image", alt |-> img.alt, path |-> img.path]

RECURSIVE InsertFrom_uncapped(_, _, _, _)
InsertFrom_uncapped(sections, local_images, i, images_used) ==
    LET max_images == Len(local_images)
    IN  IF i > Len(sections) THEN <<>>
        ELSE IF images_used < max_images /\ i - 1 <= max_images
             THEN <<ImageBlock(local_images[images_used + 1]), SectionBlock(sections[i])>>
                  \o InsertFrom_uncapped(sections, local_images, i + 1, images_used + 1)
             ELSE <<SectionBlock(sections[i])>>
                  \o InsertFrom_uncapped(sections, local_images, i + 1, images_used)

\* insert_local_images_between_sections from the i-th section on (i >= 2)
RECURSIVE InsertFrom(_, _, _, _)
InsertFrom(sections, local_images, i, images_used) ==
    LET max_images == Min({Len(local_images), 3})
    IN  IF i > Len(sections) THEN <<>>
        ELSE IF images_used < max_images /\ i - 1 <= max_images
             THEN <<ImageBlock(local_images[images_used + 1]), SectionBlock(sections[i])>>
                  \o InsertFrom(sections, local_images, i + 1, images_used + 1)
             ELSE <<SectionBlock(sections[i])>>
                  \o InsertFrom(sections, local_images, i + 1, images_used)

insert_local_images_between_sections_drops_first(sections, local_images) ==
    IF local_images = <<>> \/ sections = <<>>
    THEN [i \in 1..Len(sections) |-> SectionBlock(sections[i])]
    ELSE InsertFrom(sections, local_images, 2, 0)

insert_local_images_between_sections(sections, local_images) ==
    IF local_images = <<>> \/ sections = <<>>
    THEN [i \in 1..Len(sections) |-> SectionBlock(sections[i])]
    ELSE <<SectionBlock(sections[1])>> \o InsertFrom(sections, local_images, 2, 0)

\* create_markdown: the parts of the document that depend on the state (title and
\* excerpt are drawn at random from fixed patterns of the product name)
create_markdown(st, fetched) ==
    LET current_post == Get(st, "current_post", EmptyDict)
        content == Get(current_post, "content", EmptyContent)
        product_name == Get(st, "product_name", <<>>)
        basic_info == Get(Get(st, "search_results", EmptyDict), "basic_info", <<>>)
        local_images == download_and_prepare_images(
                            Get(st, "product_slug", slugify(product_name)),
                            Get(st, "images", <<>>), fetched)
        markdown == [body |-> insert_local_images_between_sections(content.sections, local_images),
                     image |-> IF local_images # <<>> THEN local_images[1].path
                               ELSE [slug |-> <<>>, idx |-> 1, hash |-> "product-1"],
                     references |-> SubSeq(basic_info, 1, Min({3, Len(basic_info)}))]
    IN  Put(Put(st, "local_images", local_images),
            "current_post",
            Put(Put(st.current_post, "markdown", markdown), "status", "markdown_created"))

\* the six characters save_post cuts from a fresh uuid4
ShortIds == {"3f9a1c", "b07e44"}

post_filename(st, shortid) ==
    [slug |-> Get(st, "product_slug", slugify(Get(st, "product_name", <<>>))),
     shortid |-> shortid]

save_post_without_filename(st, shortid) ==
    Put(Put(st, "current_post", Put(st.current_post, "status", "saved")), "completed", TRUE)

\* the state save_post returns
save_post(st, shortid) ==
    Put(Put(st, "current_post",
            Put(Put(st.current_post, "filename", post_filename(st, shortid)), "status", "saved")),
        "completed", TRUE)

(***************************************************************************)
(* The runtime: create_workflow compiles the stage functions into a        *)
(* StateGraph over BlogState, and batch_generate.main streams one run per  *)
(* product input.  The graph keeps one channel per key of BlogState: a     *)
(* node is handed the channels' values and only the BlogState keys of the  *)
(* dict it returns are written back.  Under the "direct" runtime the same  *)
(* functions and edges are applied to one dict, each stage receiving what  *)
(* the stage before it returned.                                           *)
(***************************************************************************)
BlogStateKeys ==
    {"task", "product_name", "search_results", "posts", "current_post", "feedback",
     "completed", "images", "product_slug", "local_images"}

\* the channels after a node returned out
ChannelWrite(old, out) ==
    [k \in DOMAIN old \cup (DOMAIN out \cap BlogStateKeys) |->
        IF k \in DOMAIN out \cap BlogStateKeys THEN out[k] ELSE old[k]]

Commit(old, out) == IF runtime = "graph" THEN ChannelWrite(old, out) ELSE out

Nodes == {"analyze", "research", "collect_images", "generate", "review", "markdown", "save"}

TaskSuffix == <<" ">> \o Review \o <<" ">> \o Write

\* the product inputs of the model: "MX" (a keyword) and "mx 9 @f (1-2)" (no keyword,
\* a style reference)
Items ==
    { <<"M", "X">>,
      <<"m", "x", " ", "9", " ", "@", "f", " ", "(", "1", "-", "2", ")">> }

initial_state(item) ==
    [task |-> item \o TaskSuffix, product_name |-> <<>>, search_results |-> EmptyDict,
     posts |-> <<>>, current_post |-> EmptyDict,
     feedback |-> [kind |-> "", failed |-> {}], completed |-> FALSE, images |-> <<>>]

Flag == {"1", ""}

Environments == [FORCE_REGENERATE : Flag, DISABLE_WEB_SEARCH : Flag, DISABLE_LLM : Flag]

NoReview ==
    [done |-> FALSE, revision_count |-> 0, failed |-> {}, revision_count_out |-> 0,
     needs_revision |-> FALSE]

\* what one execution of review_content read and returned
ReviewRecord(st, out, environ) ==
    [done |-> TRUE,
     revision_count |-> Get(st, "revision_count", 0),
     failed |-> failed_checks(
                    Get(Get(st, "current_post", EmptyDict), "content", EmptyContent),
                    Get(st, "search_results", EmptyDict),
                    Get(st, "revision_count", 0), environ),
     revision_count_out |-> Get(out, "revision_count", 0),
     needs_revision |-> Get(Get(out, "current_post", EmptyDict), "needs_revision", FALSE)]

YesNo(b) == IF b THEN "yes" ELSE "no"

Status(st) == Get(Get(st, "current_post", EmptyDict), "status", "none")

InitWith(rt) ==
    /\ env \in Environments
    /\ runtime = rt
    /\ ledger = <<>>
    /\ posts = {}
    /\ run = 0
    /\ pc = "idle"
    /\ state = EmptyDict
    /\ steps = 0
    /\ error = "none"
    /\ executed = <<>>
    /\ faults = 0
    /\ llm_calls = 0
    /\ last_review = NoReview
    /\ analyze_reviews = <<>>
    /\ verdict = "none"
    /\ run_start = [ledger |-> <<>>, posts |-> {}]

Init == InitWith("graph")

InitBoth == \E rt \in {"graph", "direct"} : InitWith(rt)

\* a superstep may run: the graph stops after recursion_limit supersteps
CanStep == runtime = "graph" => steps < recursion_limit

Step(node) ==
    /\ pc = node
    /\ CanStep
    /\ steps' = steps + 1
    /\ executed' = Append(executed, node)

\* the failures one I/O call adds: ok is its outcome
Fault(ok) == IF ok THEN 0 ELSE 1

\* the history of the step that just ended
History(calls, review, reviews, dup) ==
    /\ llm_calls' = calls
    /\ last_review' = review
    /\ analyze_reviews' = reviews
    /\ verdict' = dup

\* batch_generate.main: the next product input is streamed through the graph
StartRun ==
    /\ pc \in {"idle", "END"}
    /\ run < MaxRuns
    /\ \E item \in Items : state' = Commit(EmptyDict, initial_state(item))
    /\ pc' = "analyze"
    /\ run' = run + 1
    /\ steps' = 0
    /\ executed' = <<>>
    /\ History(0, NoReview, <<>>, "none")
    /\ run_start' = [ledger |-> ledger, posts |-> posts]
    /\ UNCHANGED <<env, runtime, ledger, posts, error, faults>>

Analyze ==
    /\ Step("analyze")
    /\ \E read_ok \in BOOLEAN :
        /\ env.FORCE_REGENERATE = "1" => read_ok
        /\ faults + Fault(read_ok) <= MaxFaults
        /\ faults' = faults + Fault(read_ok)
        /\ state' = Commit(state, analyze_task(state, load_generated_reviews(ledger, read_ok), env))
        /\ History(0, NoReview, load_generated_reviews(ledger, read_ok),
                   IF env.FORCE_REGENERATE = "1" THEN "none"
                   ELSE YesNo(is_product_already_reviewed(
                            Get(state', "product_name", <<>>),
                            load_generated_reviews(ledger, read_ok))))
    /\ pc' = IF should_continue_after_analyze(state') = "end" THEN "END" ELSE "research"
    /\ UNCHANGED <<env, runtime, ledger, posts, run, error, run_start>>

Research ==
    /\ Step("research")
    /\ \E found \in SearchOutcomes(Get(state, "product_name", <<>>)) :
        /\ env.DISABLE_WEB_SEARCH = "1" => found = NoResults(Get(state, "product_name", <<>>))
        /\ state' = Commit(state, research_product(state, found, env))
    /\ pc' = "collect_images"
    /\ History(0, NoReview, <<>>, "none")
    /\ UNCHANGED <<env, runtime, ledger, posts, run, error, faults, run_start>>

CollectImages ==
    /\ Step("collect_images")
    /\ state' = Commit(state, collect_images(state, env))
    /\ pc' = "generate"
    /\ History(0, NoReview, <<>>, "none")
    /\ UNCHANGED <<env, runtime, ledger, posts, run, error, faults, run_start>>

\* generate_content with DISABLE_LLM = "1": the template, no call
GenerateTemplate ==
    /\ Step("generate")
    /\ env.DISABLE_LLM = "1"
    /\ state' = Commit(state, generate_content(state,
                    generate_template_content(Get(state, "product_name", <<>>))))
    /\ pc' = "review"
    /\ History(0, NoReview, <<>>, "none")
    /\ UNCHANGED <<env, runtime, ledger, posts, run, error, faults, run_start>>

\* generate_content's loop: n calls, the first n - 1 texts fail the gate, the loop ends
\* on the first text that passes or with the third text
GenerateLlm ==
    /\ Step("generate")
    /\ env.DISABLE_LLM # "1"
    /\ \E n \in 1..3, content_text \in LlmContents :
        /\ n < 3 => passes_quality_gates(content_text)
        /\ History(n, NoReview, <<>>, "none")
        /\ state' = Commit(state, generate_content(state, content_text))
    /\ pc' = "review"
    /\ UNCHANGED <<env, runtime, ledger, posts, run, error, faults, run_start>>

\* the n-th llm.invoke raises (no key, network, provider error): nothing catches it
GenerateLlmRaises ==
    /\ Step("generate")
    /\ env.DISABLE_LLM # "1"
    /\ \E n \in 1..3 : History(n, NoReview, <<>>, "none")
    /\ pc' = "raised"
    /\ error' = "llm"
    /\ UNCHANGED <<env, runtime, ledger, posts, run, state, faults, run_start>>

ReviewContent ==
    /\ Step("review")
    /\ History(0, ReviewRecord(state, review_content(state, env), env), <<>>, "none")
    /\ state' = Commit(state, review_content(state, env))
    /\ pc' = IF should_revise(state') = "revise" THEN "generate" ELSE "markdown"
    /\ UNCHANGED <<env, runtime, ledger, posts, run, error, faults, run_start>>

CreateMarkdown ==
    /\ Step("markdown")
    /\ \E fetched \in SUBSET (1..Min({3, Len(Get(state, "images", <<>>))})) :
        state' = Commit(state, create_markdown(state, fetched))
    /\ pc' = "save"
    /\ History(0, NoReview, <<>>, "none")
    /\ UNCHANGED <<env, runtime, ledger, posts, run, error, faults, run_start>>

\* os.makedirs(IMAGES_DIR) of download_and_prepare_images raises: it is outside the try
CreateMarkdownRaises ==
    /\ Step("markdown")
    /\ pc' = "raised"
    /\ error' = "makedirs"
    /\ History(0, NoReview, <<>>, "none")
    /\ UNCHANGED <<env, runtime, ledger, posts, run, state, faults, run_start>>

SavePost_write_failure_skips_record ==
    /\ Step("save")
    /\ \E shortid \in ShortIds, post_ok \in BOOLEAN, read_ok \in BOOLEAN, write_ok \in BOOLEAN :
        /\ faults + Fault(post_ok) + Fault(read_ok) + Fault(write_ok) <= MaxFaults
        /\ faults' = faults + Fault(post_ok) + Fault(read_ok) + Fault(write_ok)
        /\ posts' = IF post_ok THEN posts \cup {post_filename(state, shortid)} ELSE posts
        /\ ledger' = IF post_ok
                      THEN add_review_record(ledger, Get(state, "product_name", <<>>),
                                             post_filename(state, shortid), read_ok, write_ok)
                      ELSE ledger
        /\ state' = Commit(state, save_post(state, shortid))
    /\ pc' = "END"
    /\ History(0, NoReview, <<>>, "none")
    /\ UNCHANGED <<env, runtime, run, error, run_start>>

SavePost ==
    /\ Step("save")
    /\ \E shortid \in ShortIds, post_ok \in BOOLEAN, read_ok \in BOOLEAN, write_ok \in BOOLEAN :
        /\ faults + Fault(post_ok) + Fault(read_ok) + Fault(write_ok) <= MaxFaults
        /\ faults' = faults + Fault(post_ok) + Fault(read_ok) + Fault(write_ok)
        /\ posts' = IF post_ok THEN posts \cup {post_filename(state, shortid)} ELSE posts
        /\ ledger' = add_review_record(ledger, Get(state, "product_name", <<>>),
                                       post_filename(state, shortid), read_ok, write_ok)
        /\ state' = Commit(state, save_post(state, shortid))
    /\ pc' = "END"
    /\ History(0, NoReview, <<>>, "none")
    /\ UNCHANGED <<env, runtime, run, error, run_start>>

\* the graph ran recursion_limit supersteps and a node is still due: GraphRecursionError
GraphRecursionError ==
    /\ runtime = "graph"
    /\ pc \in Nodes
    /\ steps >= recursion_limit
    /\ pc' = "raised"
    /\ error' = "recursion"
    /\ History(0, NoReview, <<>>, "none")
    /\ UNCHANGED <<env, runtime, ledger, posts, run, state, steps, executed, faults, run_start>>

Next ==
    \/ StartRun
    \/ Analyze
    \/ Research
    \/ CollectImages
    \/ GenerateTemplate
    \/ GenerateLlm
    \/ GenerateLlmRaises
    \/ ReviewContent
    \/ CreateMarkdown
    \/ CreateMarkdownRaises
    \/ SavePost
    \/ GraphRecursionError

Spec == Init /\ [][Next]_vars

\* the pipeline under either runtime
SpecBoth == InitBoth /\ [][Next]_vars

(***************************************************************************)
(* is_product_already_reviewed on its own: every product name and ledger   *)
(* of the bounded sets below.                                              *)
(***************************************************************************)
NameChars == {"a", "A", " "}

RECURSIVE StringsUpTo(_)
StringsUpTo(n) ==
    IF n = 0 THEN {<<>>}
    ELSE LET shorter == StringsUpTo(n - 1)
         IN  shorter \cup {Append(t, c) : t \in {u \in shorter : Len(u) = n - 1}, c \in NameChars}

GalaxyS24 == <<"G", "a", "l", "a", "x", "y", " ", "S", "2", "4">>

GalaxyS24Ultra == GalaxyS24 \o <<" ", "U", "l", "t", "r", "a">>

Names == StringsUpTo(MaxNameLen) \cup {GalaxyS24, GalaxyS24Ultra}

OtherRecord == new_review(<<"b">>, [slug |-> <<"b">>, shortid |-> "3f9a1c"])

NameRecord(name) == new_review(name, [slug |-> slugify(name), shortid |-> "b07e44"])

\* ledgers of one record, and of two where only the second can match
DupLedgers ==
    {<<>>} \cup {<<NameRecord(n)>> : n \in Names}
           \cup {<<OtherRecord, NameRecord(n)>> : n \in Names}

InitDup ==
    /\ env = [FORCE_REGENERATE |-> "", DISABLE_WEB_SEARCH |-> "", DISABLE_LLM |-> ""]
    /\ runtime = "direct"
    /\ ledger \in DupLedgers
    /\ posts = {}
    /\ run = 0
    /\ pc = "lookup"
    /\ \E name \in Names : state = [product_name |-> name]
    /\ steps = 0
    /\ error = "none"
    /\ executed = <<>>
    /\ faults = 0
    /\ llm_calls = 0
    /\ last_review = NoReview
    /\ analyze_reviews = <<>>
    /\ verdict = "none"
    /\ run_start = [ledger |-> <<>>, posts |-> {}]

\* one call of is_product_already_reviewed(product_name) on a readable ledger
Lookup ==
    /\ pc = "lookup"
    /\ analyze_reviews' = load_generated_reviews(ledger, TRUE)
    /\ verdict' = YesNo(is_product_already_reviewed(state.product_name, analyze_reviews'))
    /\ pc' = "looked_up"
    /\ UNCHANGED <<env, runtime, ledger, posts, run, state, steps, error, executed, faults,
                   llm_calls, last_review, run_start>>

NextDup == Lookup

SpecDup == InitDup /\ [][NextDup]_vars

(***************************************************************************)
(* WebSearcher._search_with_retry of search_tools.py, one provider attempt *)
(* per step.  state holds the call: the outcome the provider has for each  *)
(* attempt, the loop index and what the call returned.                     *)
(***************************************************************************)
\* a function under study starts at position start on the value st
InitCall(start, st) ==
    /\ env = [FORCE_REGENERATE |-> "", DISABLE_WEB_SEARCH |-> "", DISABLE_LLM |-> ""]
    /\ runtime = "direct"
    /\ ledger = <<>>
    /\ posts = {}
    /\ run = 0
    /\ pc = start
    /\ state = st
    /\ steps = 0
    /\ error = "none"
    /\ executed = <<>>
    /\ faults = 0
    /\ llm_calls = 0
    /\ last_review = NoReview
    /\ analyze_reviews = <<>>
    /\ verdict = "none"
    /\ run_start = [ledger |-> <<>>, posts |-> {}]

max_retries == 3

\* what search_func does on one attempt: it returns a list or raises; a raised error
\* is a rate-limit error, an "exception occurred in previous call" error or another one
ProviderOutcomes ==
    { [kind |-> "ok", results |-> <<"r1", "r2">>],
      [kind |-> "ok", results |-> <<>>],
      [kind |-> "ratelimit", results |-> <<>>],
      [kind |-> "previous_call", results |-> <<>>],
      [kind |-> "other", results |-> <<>>] }

search_attempt_retries_every_error(call) ==
    LET outcome == call.outcomes[call.attempt + 1]
    IN  IF outcome.kind = "ok"
        THEN [call EXCEPT !.at = "returned", !.results = outcome.results]
        ELSE IF call.attempt < max_retries - 1
             THEN [call EXCEPT !.attempt = @ + 1]
             ELSE [call EXCEPT !.at = "returned", !.results = <<>>]

search_attempt_reraises(call) ==
    LET outcome == call.outcomes[call.attempt + 1]
    IN  IF outcome.kind = "ok"
        THEN [call EXCEPT !.at = "returned", !.results = outcome.results]
        ELSE IF outcome.kind = "ratelimit"
        THEN IF call.attempt < max_retries - 1
             THEN [call EXCEPT !.attempt = @ + 1]
             ELSE [call EXCEPT !.at = "raised"]
        ELSE [call EXCEPT !.at = "returned", !.results = <<>>]

\* one iteration of the loop of _search_with_retry
search_attempt(call) ==
    LET outcome == call.outcomes[call.attempt + 1]
    IN  IF outcome.kind = "ok"
        THEN [call EXCEPT !.at = "returned", !.results = outcome.results]
        ELSE IF outcome.kind = "ratelimit"
        THEN IF call.attempt < max_retries - 1
             THEN [call EXCEPT !.attempt = @ + 1]
             ELSE [call EXCEPT !.at = "returned", !.results = <<>>]
        ELSE [call EXCEPT !.at = "returned", !.results = <<>>]

InitSearch ==
    \E outcomes \in [1..max_retries -> ProviderOutcomes] :
        InitCall("attempt", [outcomes |-> outcomes, attempt |-> 0, at |-> "attempt",
                             results |-> <<>>])

\* the provider is called once and the loop continues or the call ends
SearchAttempt ==
    /\ pc = "attempt"
    /\ state.attempt < max_retries
    /\ state' = search_attempt(state)
    /\ pc' = state'.at
    /\ steps' = steps + 1
    /\ executed' = Append(executed, state.outcomes[state.attempt + 1].kind)
    /\ UNCHANGED <<env, runtime, ledger, posts, run, error, faults, llm_calls, last_review,
                   analyze_reviews, verdict, run_start>>

NextSearch == SearchAttempt

SpecSearch == InitSearch /\ [][NextSearch]_vars

(***************************************************************************)
(* split_content_into_sections and insert_local_images_between_sections on *)
(* text: the content is a sequence of characters with "\n" between lines.  *)
(***************************************************************************)
MaxLines == 3

\* content.split("\n")
RECURSIVE split_lines(_)
split_lines(s) ==
    LET At(newlines) ==
            IF newlines = {} THEN <<s>>
            ELSE <<SubSeq(s, 1, Min(newlines) - 1)>>
                 \o split_lines(SubSeq(s, Min(newlines) + 1, Len(s)))
    IN  At({i \in 1..Len(s) : s[i] = "\n"})

\* "\n".join(texts)
RECURSIVE join_lines(_)
join_lines(texts) ==
    IF texts = <<>> THEN <<>>
    ELSE IF Len(texts) = 1 THEN texts[1]
    ELSE texts[1] \o <<"\n">> \o join_lines(Tail(texts))

startswith(line, prefix) == Len(line) >= Len(prefix) /\ SubSeq(line, 1, Len(prefix)) = prefix

Heading == <<"#", "#", "#", " ">>

\* the loop of split_content_into_sections from the i-th line on, and its last step
RECURSIVE SectionsFrom(_, _, _, _)
SectionsFrom(lines, i, sections, current_section) ==
    IF i > Len(lines)
    THEN IF strip(current_section) # <<>>
         THEN Append(sections, strip(current_section))
         ELSE sections
    ELSE IF startswith(lines[i], Heading) /\ strip(current_section) # <<>>
         THEN SectionsFrom(lines, i + 1, Append(sections, strip(current_section)),
                           lines[i] \o <<"\n">>)
         ELSE SectionsFrom(lines, i + 1, sections, current_section \o lines[i] \o <<"\n">>)

split_content_into_sections(content) == SectionsFrom(split_lines(content), 1, <<>>, <<>>)

\* image_md without its newlines: ![alt](path)
image_md(img) == <<"!", "[", img.alt, "]", "(", img.path, ")">>

\* what insert_local_images_between_sections returns: the pieces joined with "\n"
content_with_images(sections, local_images) ==
    LET Text(blocks) ==
            join_lines([k \in 1..Len(blocks) |->
                IF blocks[k].kind = "section" THEN blocks[k].text
                ELSE <<"\n">> \o image_md(blocks[k]) \o <<"\n">>])
    IN  Text(insert_local_images_between_sections(sections, local_images))

\* the lines a content is made of: blank, spaces, headings, text with and without
\* spaces around it, a line that only looks like a heading
ContentLines ==
    { <<>>, <<" ">>, <<"#", "#", "#", " ", "h">>, <<"#", "#", "#", " ">>,
      <<"a">>, <<" ", "b", " ">>, <<"#", "#", "#", "x">> }

RECURSIVE LinesUpTo(_)
LinesUpTo(n) ==
    IF n = 0 THEN {<<>>}
    ELSE LET shorter == LinesUpTo(n - 1)
         IN  shorter \cup {Append(t, l) : t \in {u \in shorter : Len(u) = n - 1},
                                          l \in ContentLines}

Contents == {join_lines(lines) : lines \in LinesUpTo(MaxLines) \ {<<>>}}

LocalImage(k) == [path |-> "/images/p.webp", alt |-> "t", width |-> 800, height |-> 600 + k]

LocalImageLists == {[k \in 1..n |-> LocalImage(k)] : n \in {0, 1, 2, 4}}

InitSections ==
    \E content \in Contents, local_images \in LocalImageLists :
        InitCall("split", [content |-> content, local_images |-> local_images])

\* create_markdown, line 492
SplitContent ==
    /\ pc = "split"
    /\ state' = Put(state, "sections", split_content_into_sections(state.content))
    /\ pc' = "insert"
    /\ UNCHANGED <<env, runtime, ledger, posts, run, steps, error, executed, faults, llm_calls,
                   last_review, analyze_reviews, verdict, run_start>>

\* create_markdown, line 500
InsertImages ==
    /\ pc = "insert"
    /\ state' = Put(state, "content_with_images",
                    content_with_images(state.sections, state.local_images))
    /\ pc' = "inserted"
    /\ UNCHANGED <<env, runtime, ledger, posts, run, steps, error, executed, faults, llm_calls,
                   last_review, analyze_reviews, verdict, run_start>>

NextSections == SplitContent \/ InsertImages

SpecSections == InitSections /\ [][NextSections]_vars

(***************************************************************************)
(* analyze_task on its own, over the tasks batch_generate builds from      *)
(* product inputs of a few words, with and without a style reference.      *)
(***************************************************************************)
MaxWords == 6

\* a keyword, a plain word, a word with a keyword (LG) inside it
TaskWords == { <<"M", "X">>, <<"a">>, <<"x", "L", "G">> }

RECURSIVE WordListsUpTo(_)
WordListsUpTo(n) ==
    IF n = 0 THEN {<<>>}
    ELSE LET shorter == WordListsUpTo(n - 1)
         IN  shorter \cup {Append(t, w) : t \in {u \in shorter : Len(u) = n - 1},
                                          w \in TaskWords}

StyleAnnotation == <<"@", "f", " ", "(", "1", "-", "2", ")">>

ProductInputs ==
    LET plain == {join(words) : words \in WordListsUpTo(MaxWords) \ {<<>>}}
    IN  plain \cup {t \o <<" ">> \o StyleAnnotation : t \in plain}

InitAnalyze == \E item \in ProductInputs : InitCall("analyze_task", initial_state(item))

\* analyze_task called on the initial state, the ledger empty
AnalyzeTask ==
    /\ pc = "analyze_task"
    /\ state' = analyze_task(state, <<>>, env)
    /\ pc' = "analyzed"
    /\ UNCHANGED <<env, runtime, ledger, posts, run, steps, error, executed, faults, llm_calls,
                   last_review, analyze_reviews, verdict, run_start>>

NextAnalyze == AnalyzeTask

SpecAnalyze == InitAnalyze /\ [][NextAnalyze]_vars

(***************************************************************************)
(* The basic workflow of main.py: analyze -> generate -> review ->         *)
(* (revise: generate | continue: markdown) -> save, compiled into a        *)
(* StateGraph whose BlogState has every key the nodes write.  main streams *)
(* it with LangGraph's default recursion limit (25), for which the bound   *)
(* recursion_limit stands.  A content is its length.                       *)
(***************************************************************************)
\* the tasks analyze_task of main.py tells apart: a review, an update, anything else
MainTasks == { <<"(ri)", "(byu)">>, <<"(su)", "(jeong)">>, <<"a">> }

main_initial_state(task) ==
    [task |-> task, posts |-> <<>>, current_post |-> EmptyDict,
     feedback |-> "", completed |-> FALSE]

main_analyze_task(st) ==
    LET task == Get(st, "task", <<>>)
        type == IF Contains(task, <<"(ri)", "(byu)">>) \/ Contains(task, <<"(po)", "(seu)", "(teu)">>)
                THEN "review"
                ELSE IF Contains(task, <<"(su)", "(jeong)">>)
                        \/ Contains(task, <<"(eob)", "(de)", "(i)", "(teu)">>)
                THEN "update"
                ELSE "general"
    IN  Put(st, "current_post", [type |-> type, status |-> "analyzing"])

\* the lengths of response.content in the model
MainContentLengths == {0, 99, 100, 1500}

main_generate_content(st, length) ==
    Put(st, "current_post",
        Put(Put(st.current_post, "content", [len |-> length]), "status", "generated"))

main_review_content(st) ==
    LET content == Get(Get(st, "current_post", EmptyDict), "content", [len |-> 0])
    IN  IF content.len < 100
        THEN Put(Put(st, "feedback", "too_short"),
                 "current_post", Put(st.current_post, "needs_revision", TRUE))
        ELSE Put(Put(st, "feedback", "fine"),
                 "current_post", Put(st.current_post, "needs_revision", FALSE))

main_should_revise(st) ==
    IF Get(Get(st, "current_post", EmptyDict), "needs_revision", FALSE)
    THEN "revise" ELSE "continue"

main_create_markdown(st) ==
    LET content == Get(Get(st, "current_post", EmptyDict), "content", [len |-> 0])
    IN  Put(st, "current_post",
            Put(Put(st.current_post, "markdown", [body |-> content]), "status", "markdown_created"))

\* save_post of main.py prints the post; the file name is built from the clock
main_save_post(st) ==
    Put(Put(st, "current_post",
            Put(Put(st.current_post, "filename", "auto_post"), "status", "saved")),
        "completed", TRUE)

MainNodes == {"main_analyze", "main_generate", "main_review", "main_markdown", "main_save"}

InitMain == \E task \in MainTasks : InitCall("main_analyze", main_initial_state(task))

\* one superstep of the compiled graph: node ran, its output committed, goto the next
MainStep(node, out, goto) ==
    /\ pc = node
    /\ steps < recursion_limit
    /\ steps' = steps + 1
    /\ executed' = Append(executed, node)
    /\ state' = out
    /\ pc' = goto
    /\ UNCHANGED <<env, runtime, ledger, posts, run, error, faults, llm_calls, last_review,
                   analyze_reviews, verdict, run_start>>

MainAnalyze == MainStep("main_analyze", main_analyze_task(state), "main_generate")

MainGenerate ==
    \E length \in MainContentLengths :
        MainStep("main_generate", main_generate_content(state, length), "main_review")

\* llm.invoke raises: generate_content of main.py does not catch it
MainGenerateRaises ==
    /\ pc = "main_generate"
    /\ steps < recursion_limit
    /\ steps' = steps + 1
    /\ executed' = Append(executed, "main_generate")
    /\ pc' = "raised"
    /\ error' = "llm"
    /\ UNCHANGED <<env, runtime, ledger, posts, run, state, faults, llm_calls, last_review,
                   analyze_reviews, verdict, run_start>>

MainReview ==
    MainStep("main_review", main_review_content(state),
             IF main_should_revise(main_review_content(state)) = "revise"
             THEN "main_generate" ELSE "main_markdown")

MainMarkdown == MainStep("main_markdown", main_create_markdown(state), "main_save")

MainSave == MainStep("main_save", main_save_post(state), "END")

\* recursion_limit supersteps ran and a node is still due: GraphRecursionError
MainRecursionError ==
    /\ pc \in MainNodes
    /\ steps >= recursion_limit
    /\ pc' = "raised"
    /\ error' = "recursion"
    /\ UNCHANGED <<env, runtime, ledger, posts, run, state, steps, executed, faults, llm_calls,
                   last_review, analyze_reviews, verdict, run_start>>

NextMain ==
    \/ MainAnalyze
    \/ MainGenerate
    \/ MainGenerateRaises
    \/ MainReview
    \/ MainMarkdown
    \/ MainSave
    \/ MainRecursionError

SpecMain == InitMain /\ [][NextMain]_vars

(***************************************************************************)
(* The quality gate evaluated again and again: passes_quality_gates on the *)
(* text generate_content holds, and the checks of review_content on the    *)
(* state, with new texts arriving in between.  Every evaluation is logged  *)
(* with what it read, what it found and what it left behind.               *)
(***************************************************************************)
MaxEvals == 3

GateContents ==
    { generate_template_content(<<"a">>),
      [len |-> 1500, metrics |-> 3, marks |-> Markers, sections |-> TemplateSections],
      [len |-> 700, metrics |-> 3, marks |-> Markers, sections |-> TemplateSections],
      [len |-> 400, metrics |-> 0, marks |-> {}, sections |-> <<"intro">>] }

GateSearchResults == { NoResults(<<"a">>),
                       [NoResults(<<"a">>) EXCEPT !.basic_info = <<"r1", "r2">>] }

InitGate ==
    /\ env \in Environments
    /\ runtime = "direct"
    /\ ledger = <<>>
    /\ posts = {}
    /\ run = 0
    /\ pc = "gate"
    /\ \E content \in GateContents, found \in GateSearchResults :
        state = generate_content(Put(initial_state(<<"a">>), "search_results", found), content)
    /\ steps = 0
    /\ error = "none"
    /\ executed = <<>>
    /\ faults = 0
    /\ llm_calls = 0
    /\ last_review = NoReview
    /\ analyze_reviews = <<>>
    /\ verdict = "none"
    /\ run_start = [ledger |-> <<>>, posts |-> {}]

GateInputs(st, environ) ==
    [content |-> Get(Get(st, "current_post", EmptyDict), "content", EmptyContent),
     search_results |-> Get(st, "search_results", EmptyDict),
     revision_count |-> Get(st, "revision_count", 0),
     environ |-> environ]

\* passes_quality_gates(content_text) as generate_content calls it
GatePasses ==
    /\ pc = "gate"
    /\ steps < MaxEvals
    /\ UNCHANGED <<env, runtime, ledger, posts, run, pc, state, error, faults, llm_calls,
                   last_review, analyze_reviews, verdict, run_start>>
    /\ steps' = steps + 1
    /\ executed' = Append(executed,
            [gate |-> "passes_quality_gates", read |-> GateInputs(state, env),
             result |-> YesNo(passes_quality_gates(state.current_post.content)),
             failed |-> {},
             left |-> GateInputs(state', env')])

\* review_content on the state
GateReview ==
    /\ pc = "gate"
    /\ steps < MaxEvals
    /\ steps' = steps + 1
    /\ state' = review_content(state, env)
    /\ UNCHANGED <<env, runtime, ledger, posts, run, pc, error, faults, llm_calls,
                   last_review, analyze_reviews, verdict, run_start>>
    /\ executed' = Append(executed,
            [gate |-> "review_content", read |-> GateInputs(state, env),
             result |-> YesNo(failed_checks(
                            Get(Get(state, "current_post", EmptyDict), "content", EmptyContent),
                            Get(state, "search_results", EmptyDict),
                            Get(state, "revision_count", 0), env) = {}),
             failed |-> failed_checks(
                            Get(Get(state, "current_post", EmptyDict), "content", EmptyContent),
                            Get(state, "search_results", EmptyDict),
                            Get(state, "revision_count", 0), env),
             left |-> GateInputs(state', env')])

\* generate_content stores another text
GateGenerate ==
    /\ pc = "gate"
    /\ llm_calls < MaxEvals
    /\ llm_calls' = llm_calls + 1
    /\ \E content_text \in GateContents :
        /\ content_text # state.current_post.content
        /\ state' = generate_content(state, content_text)
    /\ UNCHANGED <<env, runtime, ledger, posts, run, pc, steps, error, executed, faults,
                   last_review, analyze_reviews, verdict, run_start>>

NextGate ==
    \/ GatePasses
    \/ GateReview
    \/ GateGenerate

SpecGate == InitGate /\ [][NextGate]_vars

(***************************************************************************)
(* The loop of generate_content with the LLM enabled, one llm.invoke at a  *)
(* time.  The call is given the three answers the generator would make:    *)
(* a text or an exception.                                                 *)
(***************************************************************************)
LlmRaises == [raises |-> TRUE]

LlmAnswers == GateContents \cup {LlmRaises}

generate_attempt_no_break(call) ==
    LET raw == call.answers[call.attempts + 1]
    IN  IF raw = LlmRaises
        THEN [call EXCEPT !.invoked = @ + 1, !.at = "raised"]
        ELSE IF call.attempts + 1 < 3
        THEN [call EXCEPT !.invoked = @ + 1, !.content_text = raw, !.attempts = @ + 1]
        ELSE [call EXCEPT !.invoked = @ + 1, !.content_text = raw,
                          !.attempts = @ + 1,
                          !.at = "review", !.st = generate_content(call.st, raw)]

\* one iteration of the while loop of generate_content and, when the loop ends, the
\* assignments after it
generate_attempt(call) ==
    LET raw == call.answers[call.attempts + 1]
    IN  IF raw = LlmRaises
        THEN [call EXCEPT !.invoked = @ + 1, !.at = "raised"]
        ELSE IF passes_quality_gates(raw)
        THEN [call EXCEPT !.invoked = @ + 1, !.content_text = raw,
                          !.at = "review", !.st = generate_content(call.st, raw)]
        ELSE IF call.attempts + 1 < 3
        THEN [call EXCEPT !.invoked = @ + 1, !.content_text = raw, !.attempts = @ + 1]
        ELSE [call EXCEPT !.invoked = @ + 1, !.content_text = raw,
                          !.attempts = @ + 1,
                          !.at = "review", !.st = generate_content(call.st, raw)]

InitGenerate ==
    \E answers \in [1..3 -> LlmAnswers], found \in GateSearchResults :
        InitCall("generate",
                 [answers |-> answers, attempts |-> 0, invoked |-> 0,
                  content_text |-> EmptyContent, at |-> "generate",
                  st |-> Put(Put(initial_state(<<"a">>), "search_results", found),
                             "current_post", [status |-> "analyzing"])])

LlmAttempt ==
    /\ pc = "generate"
    /\ state.attempts < 3
    /\ state' = generate_attempt(state)
    /\ pc' = state'.at
    /\ steps' = steps + 1
    /\ llm_calls' = llm_calls + 1
    /\ executed' = Append(executed, state.answers[state.attempts + 1])
    /\ UNCHANGED <<env, runtime, ledger, posts, run, error, faults, last_review,
                   analyze_reviews, verdict, run_start>>

NextGenerate == LlmAttempt

SpecGenerate == InitGenerate /\ [][NextGenerate]_vars

(***************************************************************************)
(* insert_local_images_between_sections on lists of sections and of local  *)
(* images of every length up to the bounds.                                *)
(***************************************************************************)
MaxSections == 5

MaxImages == 5

SectionTexts == { <<"#", "#", "#", " ", "h">>, <<"a">> }

RECURSIVE SectionListsUpTo(_)
SectionListsUpTo(n) ==
    IF n = 0 THEN {<<>>}
    ELSE LET shorter == SectionListsUpTo(n - 1)
         IN  shorter \cup {Append(t, s) : t \in {u \in shorter : Len(u) = n - 1},
                                          s \in SectionTexts}

InitInsert ==
    \E sections \in SectionListsUpTo(MaxSections), m \in 0..MaxImages :
        InitCall("insert", [sections |-> sections,
                            local_images |-> [k \in 1..m |-> LocalImage(k)]])

InsertLocalImages ==
    /\ pc = "insert"
    /\ state' = Put(state, "result",
                    insert_local_images_between_sections(state.sections, state.local_images))
    /\ pc' = "inserted"
    /\ UNCHANGED <<env, runtime, ledger, posts, run, steps, error, executed, faults, llm_calls,
                   last_review, analyze_reviews, verdict, run_start>>

NextInsert == InsertLocalImages

SpecInsert == InitInsert /\ [][NextInsert]_vars

(***************************************************************************)
(* Two pipeline runs in two processes, each in add_review_record: it loads *)
(* the ledger file, appends its record to the list it holds, and writes    *)
(* the list back.  Nothing orders the steps of one against the other's.    *)
(***************************************************************************)
Writers == {1, 2}

WriterProducts == { <<"M", "X">>, <<"m", "x", " ", "9">> }

StoredLedgers ==
    { <<>>, <<new_review(<<"a">>, [slug |-> <<"a">>, shortid |-> "3f9a1c"])>> }

WriterRecord(p, product_name) ==
    new_review(product_name, [slug |-> slugify(product_name), shortid |-> (IF p = 1 THEN "3f9a1c" ELSE "b07e44")])

InitLedger ==
    /\ env = [FORCE_REGENERATE |-> "", DISABLE_WEB_SEARCH |-> "", DISABLE_LLM |-> ""]
    /\ runtime = "direct"
    /\ ledger \in StoredLedgers
    /\ posts = {}
    /\ run = 0
    /\ pc = "add_review_record"
    /\ \E names \in [Writers -> WriterProducts] :
        state = [p \in Writers |->
                    [at |-> "load", reviews |-> <<>>, new_review |-> WriterRecord(p, names[p])]]
    /\ steps = 0
    /\ error = "none"
    /\ executed = <<>>
    /\ faults = 0
    /\ llm_calls = 0
    /\ last_review = NoReview
    /\ analyze_reviews = <<>>
    /\ verdict = "none"
    /\ run_start = [ledger |-> ledger, posts |-> {}]

\* reviews = load_generated_reviews() in process p
LedgerLoad ==
    \E p \in Writers, read_ok \in BOOLEAN :
        /\ state[p].at = "load"
        /\ faults + Fault(read_ok) <= MaxFaults
        /\ faults' = faults + Fault(read_ok)
        /\ state' = [state EXCEPT ![p].reviews = load_generated_reviews(ledger, read_ok),
                                  ![p].at = "save"]
        /\ executed' = Append(executed, [op |-> "load", by |-> p])
        /\ steps' = steps + 1
        /\ UNCHANGED <<env, runtime, ledger, posts, run, pc, error, llm_calls, last_review,
                       analyze_reviews, verdict, run_start>>

\* reviews.append(new_review); save_generated_reviews(reviews) in process p
LedgerSave ==
    \E p \in Writers, write_ok \in BOOLEAN :
        /\ state[p].at = "save"
        /\ faults + Fault(write_ok) <= MaxFaults
        /\ faults' = faults + Fault(write_ok)
        /\ ledger' = save_generated_reviews(ledger,
                         Append(state[p].reviews, state[p].new_review), write_ok)
        /\ state' = [state EXCEPT ![p].reviews = Append(@, state[p].new_review),
                                  ![p].at = "done"]
        /\ executed' = Append(executed, [op |-> "save", by |-> p])
        /\ steps' = steps + 1
        /\ UNCHANGED <<env, runtime, posts, run, pc, error, llm_calls, last_review,
                       analyze_reviews, verdict, run_start>>

NextLedger == LedgerLoad \/ LedgerSave

SpecLedger == InitLedger /\ [][NextLedger]_vars

(***************************************************************************)
(* analyze_task on tasks that name no product and on ledgers whose records *)
(* have an empty name or none, the ledger readable.                        *)
(***************************************************************************)
\* the tasks: the bare request, the batch task of an empty item and of a blank one, and
\* two tasks that name a product
BlankTasks ==
    { Review \o <<" ">> \o Write,
      TaskSuffix,
      <<" ">> \o TaskSuffix,
      <<"a">> \o TaskSuffix,
      <<"M", "X">> \o TaskSuffix }

BlankLedgerRecords ==
    { new_review(<<>>, [slug |-> Post, shortid |-> "3f9a1c"]),
      new_review(<<" ">>, [slug |-> Post, shortid |-> "3f9a1c"]),
      [filename |-> [slug |-> Post, shortid |-> "3f9a1c"]],
      OtherRecord }

BlankLedgers ==
    {<<>>} \cup {<<r>> : r \in BlankLedgerRecords}
           \cup {<<OtherRecord, r>> : r \in BlankLedgerRecords}

InitBlank ==
    /\ env \in {e \in Environments : e.DISABLE_WEB_SEARCH = "" /\ e.DISABLE_LLM = ""}
    /\ runtime = "direct"
    /\ ledger \in BlankLedgers
    /\ posts = {}
    /\ run = 0
    /\ pc = "analyze_task"
    /\ \E task \in BlankTasks : state = Put(initial_state(<<>>), "task", task)
    /\ steps = 0
    /\ error = "none"
    /\ executed = <<>>
    /\ faults = 0
    /\ llm_calls = 0
    /\ last_review = NoReview
    /\ analyze_reviews = <<>>
    /\ verdict = "none"
    /\ run_start = [ledger |-> ledger, posts |-> {}]

\* analyze_task, and what its is_product_already_reviewed answers for the name it found
AnalyzeBlank ==
    /\ pc = "analyze_task"
    /\ analyze_reviews' = load_generated_reviews(ledger, TRUE)
    /\ state' = analyze_task(state, analyze_reviews', env)
    /\ verdict' = YesNo(is_product_already_reviewed(state'.product_name, analyze_reviews'))
    /\ pc' = IF should_continue_after_analyze(state') = "end" THEN "END" ELSE "research"
    /\ executed' = Append(executed, "analyze")
    /\ UNCHANGED <<env, runtime, ledger, posts, run, steps, error, faults, llm_calls,
                   last_review, run_start>>

NextBlank == AnalyzeBlank

SpecBlank == InitBlank /\ [][NextBlank]_vars

(***************************************************************************)
(* ReviewWorkflow of workflows.py: research -> write -> edit -> seo ->     *)
(* markdown -> END, every edge unconditional.  Each of the first four      *)
(* nodes calls an agent whose llm.invoke returns or raises; the node       *)
(* catches the exception and records it.  ReviewState declares every key   *)
(* the nodes write.                                                        *)
(***************************************************************************)
WorkflowProducts == { <<"x">>, <<"x", " ", "y">>, <<" ">> }

workflow_initial_state(product_name) ==
    [product_name |-> product_name, research_data |-> EmptyDict, raw_content |-> "",
     edited_content |-> "", seo_data |-> EmptyDict, markdown |-> "",
     status |-> "started", error |-> ""]

research_node(st, ok) ==
    IF ok
    THEN [st EXCEPT !.research_data = [product |-> st.product_name, research |-> "research"],
                    !.status = "research_completed"]
    ELSE [st EXCEPT !.error = "research_error", !.status = "error"]

write_node(st, ok) ==
    IF ok
    THEN [st EXCEPT !.raw_content = [written_from |-> st.research_data],
                    !.status = "writing_completed"]
    ELSE [st EXCEPT !.error = "write_error", !.status = "error"]

edit_node(st, ok) ==
    IF ok
    THEN [st EXCEPT !.edited_content = [edited_from |-> st.raw_content],
                    !.status = "editing_completed"]
    ELSE [st EXCEPT !.error = "edit_error", !.status = "error"]

seo_node(st, ok) ==
    IF ok
    THEN [st EXCEPT !.seo_data = [seo_data |-> "seo"], !.status = "seo_completed"]
    ELSE [st EXCEPT !.error = "seo_error", !.status = "error"]

\* markdown_node calls no LLM; product_name.split()[0] raises for a blank name
markdown_node(st) ==
    IF split(st.product_name) # <<>>
    THEN [st EXCEPT !.markdown = [content |-> st.edited_content,
                                  tag |-> split(st.product_name)[1]],
                    !.status = "completed"]
    ELSE [st EXCEPT !.error = "markdown_error", !.status = "error"]

InitWorkflow ==
    \E product_name \in WorkflowProducts :
        InitCall("research", workflow_initial_state(product_name))

\* one superstep: the node's output is committed and the edge followed
WorkflowStep(node, out, ok, goto) ==
    /\ pc = node
    /\ state' = out
    /\ pc' = goto
    /\ steps' = steps + 1
    /\ executed' = Append(executed, [node |-> node, ok |-> ok])
    /\ UNCHANGED <<env, runtime, ledger, posts, run, error, faults, llm_calls, last_review,
                   analyze_reviews, verdict, run_start>>

WorkflowResearch ==
    \E ok \in BOOLEAN : WorkflowStep("research", research_node(state, ok), ok, "write")

WorkflowWrite ==
    \E ok \in BOOLEAN : WorkflowStep("write", write_node(state, ok), ok, "edit")

WorkflowEdit ==
    \E ok \in BOOLEAN : WorkflowStep("edit", edit_node(state, ok), ok, "seo")

WorkflowSeo ==
    \E ok \in BOOLEAN : WorkflowStep("seo", seo_node(state, ok), ok, "markdown")

WorkflowMarkdown ==
    WorkflowStep("markdown", markdown_node(state), markdown_node(state).status = "completed",
                 "END")

NextWorkflow ==
    \/ WorkflowResearch
    \/ WorkflowWrite
    \/ WorkflowEdit
    \/ WorkflowSeo
    \/ WorkflowMarkdown

SpecWorkflow == InitWorkflow /\ [][NextWorkflow]_vars

(***************************************************************************)
(* Properties.                                                             *)
(***************************************************************************)
Count(seq, x) == Cardinality({i \in 1..Len(seq) : seq[i] = x})

\* a occurs in b as a run of consecutive characters
IsSubstringOf(a, b) ==
    \E i \in 1..(Len(b) + 1) : \A k \in 1..Len(a) : i + k - 1 <= Len(b) /\ b[i + k - 1] = a[k]

\* some record's product name, lower-cased and trimmed, is inside the name or contains it
MatchesLedgerEntry(product_name, reviews) ==
    \E i \in 1..Len(reviews) :
        LET name == strip(lower(product_name))
            entry == strip(lower(Get(reviews[i], "product_name", <<>>)))
        IN  IsSubstringOf(name, entry) \/ IsSubstringOf(entry, name)

AllContentChecks ==
    {"length", "numbers", "has_pros", "has_cons", "has_compare", "has_price", "has_faq"}

\* C1: revision_count never exceeds 2, in the state and in what review_content
\* returns, whatever the checks find and under either runtime.
C1_RevisionCountAtMostTwo ==
    /\ Get(state, "revision_count", 0) <= 2
    /\ last_review.revision_count_out <= 2

\* a run that was revised twice and went on to save
C1_Witness == Get(state, "revision_count", 0) = 2 /\ Status(state) = "saved"

\* C2: a review_content that reads revision_count = 2 sets needs_revision = false and
\* the run goes on to markdown, whichever checks failed.
C2_CeilingForcesMarkdown ==
    (last_review.done /\ last_review.revision_count = 2) =>
        /\ ~last_review.needs_revision
        /\ Get(state.current_post, "needs_revision", TRUE) = FALSE
        /\ should_revise(state) = "continue"
        /\ pc = "markdown"

\* the third review of a text that fails every content check
C2_Witness ==
    /\ last_review.done
    /\ last_review.revision_count = 2
    /\ AllContentChecks \subseteq last_review.failed
    /\ pc = "markdown"

\* C3 (as claimed): a run that analyze did not flag as duplicate and that no failing
\* external call cut short ends with status saved, however often the review fails.
C3_RunEndsSaved ==
    (pc \in {"END", "raised"} /\ error \notin {"llm", "makedirs"}) =>
        Status(state) \in {"saved", "duplicate"}

\* C4: review_content sets needs_revision and adds one to revision_count exactly when a
\* check failed and it read revision_count < 2; otherwise needs_revision is false and
\* revision_count is as it was; the next stage is generate exactly when needs_revision.
C4_ReviseIffFailedBelowCeiling ==
    last_review.done =>
        LET revise == last_review.failed # {} /\ last_review.revision_count < 2
        IN  /\ last_review.needs_revision = revise
            /\ last_review.revision_count_out =
                   last_review.revision_count + (IF revise THEN 1 ELSE 0)
            /\ Get(state.current_post, "needs_revision", ~revise) = revise
            /\ pc = (IF revise THEN "generate" ELSE "markdown")

\* the first review of a 400-character text with search results at hand
C4_Witness ==
    /\ last_review.done
    /\ last_review.revision_count = 0
    /\ state.current_post.content.len = 400
    /\ Len(state.search_results.basic_info) > 0
    /\ "length" \in last_review.failed
    /\ last_review.needs_revision
    /\ last_review.revision_count_out = 1
    /\ pc = "generate"

\* C5 (as claimed): analyze_task ends with status duplicate exactly when the product
\* name matches an entry of the ledger and FORCE_REGENERATE is not "1".
C5_DuplicateIffLedgerMatch ==
    executed = <<"analyze">> =>
        ((Status(state) = "duplicate") =
            (env.FORCE_REGENERATE # "1" /\ MatchesLedgerEntry(state.product_name, ledger)))

\* C5 (amended): analyze_task ends with status duplicate exactly when the product name
\* matches an entry of the list load_generated_reviews returned to it (the empty list
\* when the ledger file could not be read) and FORCE_REGENERATE is not "1"; a run
\* that is not a duplicate goes on to research.
C5_DuplicateIffLoadedMatch ==
    executed = <<"analyze">> =>
        /\ (Status(state) = "duplicate") =
            (env.FORCE_REGENERATE # "1" /\ MatchesLedgerEntry(state.product_name, analyze_reviews))
        /\ env.FORCE_REGENERATE = "1" => Status(state) = "analyzing"
        /\ pc = (IF Status(state) = "duplicate" THEN "END" ELSE "research")

\* the second run of a product whose review is in the ledger
C5_Witness ==
    /\ executed = <<"analyze">>
    /\ Status(state) = "duplicate"
    /\ verdict = "yes"
    /\ env.FORCE_REGENERATE # "1"

\* C6: a run flagged duplicate is over after analyze: completed is true, no other stage
\* ran, and the ledger and the post store are as they were when the run started.
C6_DuplicateHaltsAtAnalyze ==
    Status(state) = "duplicate" =>
        /\ pc = "END"
        /\ Get(state, "completed", FALSE) = TRUE
        /\ executed = <<"analyze">>
        /\ ledger = run_start.ledger
        /\ posts = run_start.posts

\* a duplicate run after a run that saved its post and its record
C6_Witness ==
    /\ Status(state) = "duplicate"
    /\ pc = "END"
    /\ ledger # <<>>
    /\ posts # {}

\* C7: is_product_already_reviewed answers yes exactly when some record's name,
\* lower-cased and trimmed, is inside the product name or contains it; swapping the
\* product name and the name of a one-record ledger gives the same answer.
C7_SymmetricSubstringMatch ==
    pc = "looked_up" =>
        /\ (verdict = "yes") = MatchesLedgerEntry(state.product_name, ledger)
        /\ Len(ledger) = 1 =>
            (verdict = "yes") =
                is_product_already_reviewed(ledger[1].product_name,
                                            <<new_review(state.product_name, <<>>)>>)
        /\ (state.product_name = GalaxyS24Ultra /\ ledger = <<NameRecord(GalaxyS24)>>)
            => verdict = "yes"
        /\ (state.product_name = GalaxyS24 /\ ledger = <<NameRecord(GalaxyS24Ultra)>>)
            => verdict = "yes"

\* 'Galaxy S24 Ultra' looked up in a ledger that holds 'Galaxy S24'
C7_Witness ==
    /\ pc = "looked_up"
    /\ state.product_name = GalaxyS24Ultra
    /\ ledger = <<NameRecord(GalaxyS24)>>
    /\ verdict = "yes"

\* the steps of the status sequence; analyze_task writes analyzing and, for a duplicate,
\* duplicate in the same call, so a run's first step may show duplicate at once
StatusAdvance ==
    { <<"none", "analyzing">>, <<"none", "duplicate">>,
      <<"analyzing", "duplicate">>, <<"analyzing", "generated">>,
      <<"generated", "generated">>, <<"generated", "markdown_created">>,
      <<"markdown_created", "saved">> }

\* C8: within one run the status only steps along analyzing -> duplicate or
\* analyzing -> generated -> markdown_created -> saved, generated being the only
\* status set again.
C8_StatusAdvances ==
    [][run' = run =>
        \/ Status(state') = Status(state)
        \/ <<Status(state), Status(state')>> \in StatusAdvance]_vars

\* a saved run whose revise loop went back to generate
C8_Witness == Status(state) = "saved" /\ Count(executed, "generate") >= 2

\* C9 (as claimed): no stage raises when an external call fails.
C9_NoStageRaises == error \notin {"llm", "makedirs"}

\* C10 (as claimed): when save_post's add_review_record has rewritten the ledger, the
\* records stored before are all there, in their order, followed by the new record.
C10_AppendOnly ==
    (pc = "END" /\ Status(state) = "saved" /\ ledger # run_start.ledger) =>
        ledger = Append(run_start.ledger,
                        new_review(state.product_name, state.current_post.filename))

IsPrefix(a, b) == Len(a) <= Len(b) /\ SubSeq(b, 1, Len(a)) = a

\* create_workflow's path without a revision
Pipeline == <<"analyze", "research", "collect_images", "generate", "review", "markdown", "save">>

\* web search and generation disabled, a run under way whose task has no style
\* reference and which analyze did not flag as duplicate
TemplateScenario ==
    /\ env.DISABLE_WEB_SEARCH = "1"
    /\ env.DISABLE_LLM = "1"
    /\ pc \in Nodes \cup {"END", "raised"}
    /\ extract_style_reference(state.task) = EmptyDict
    /\ Status(state) # "duplicate"

\* C11: with web search and generation disabled, no style reference and no ledger
\* match, the run goes once through every stage (one generate, one review, no llm call,
\* no recursion error), and when save ends with no I/O failure the status is saved, the
\* content is generate_template_content(product_name) and the ledger is the one before
\* plus one record with that product name and the file name review-<slug>-<shortid>.md.
C11_TemplateRunSaves ==
    /\ [](TemplateScenario =>
            /\ IsPrefix(executed, Pipeline)
            /\ error \in {"none", "makedirs"}
            /\ pc = "END" => (executed = Pipeline /\ Status(state) = "saved"))
    /\ [][(TemplateScenario /\ pc = "save" /\ pc' = "END" /\ faults' = faults) =>
            /\ Status(state') = "saved"
            /\ state'.completed = TRUE
            /\ executed' = Pipeline
            /\ state'.current_post.content = generate_template_content(state'.product_name)
            /\ state'.current_post.filename.slug = slugify(state'.product_name)
            /\ state'.current_post.filename.shortid \in ShortIds
            /\ ledger' = Append(ledger, new_review(state'.product_name,
                                                   state'.current_post.filename))
            /\ posts' = posts \cup {state'.current_post.filename}]_vars

\* a second product saved from the template, no failure anywhere, two records stored
C11_Witness ==
    /\ TemplateScenario
    /\ pc = "END"
    /\ Status(state) = "saved"
    /\ faults = 0
    /\ run = 2
    /\ Len(ledger) = 2
    /\ ledger[2] = new_review(state.product_name, state.current_post.filename)
    /\ state.current_post.content = generate_template_content(state.product_name)

\* C12: when save_post's write of the post file fails (and the ledger's read and write
\* do not), the run ends as after a successful write: filename set, status saved,
\* completed true, one record appended to the ledger; only the file is missing.
C12_PostWriteFailureStillCompletes ==
    [][(/\ pc = "save"
        /\ pc' = "END"
        /\ faults' = faults + 1
        /\ Get(state'.current_post, "filename", <<>>) \notin posts') =>
            /\ "filename" \in DOMAIN state'.current_post
            /\ state'.current_post.filename.slug = state.product_slug
            /\ Status(state') = "saved"
            /\ state'.completed = TRUE
            /\ error' = "none"
            /\ ledger' = Append(ledger, new_review(state'.product_name,
                                                   state'.current_post.filename))
            /\ posts' = posts]_vars

\* a saved run whose post file was not written and whose record is in the ledger
C12_Witness ==
    /\ pc = "END"
    /\ Status(state) = "saved"
    /\ state.completed
    /\ state.current_post.filename \notin posts
    /\ faults = 1
    /\ ledger = Append(run_start.ledger,
                       new_review(state.product_name, state.current_post.filename))

\* C13: _search_with_retry never raises and calls the provider at most max_retries (3)
\* times, whatever the provider does on each attempt; it returns what the provider
\* returned, and the empty list when no attempt that was made succeeded.
C13_SearchNeverRaises ==
    /\ pc \in {"attempt", "returned"}
    /\ steps <= 3
    /\ Len(executed) = steps
    /\ pc = "attempt" => steps < 3
    /\ (pc = "returned" /\ \A i \in 1..Len(executed) : executed[i] # "ok") => state.results = <<>>
    /\ (pc = "returned" /\ executed[Len(executed)] = "ok") =>
            state.results = state.outcomes[Len(executed)].results

\* three rate-limit errors in a row: three attempts, the empty list returned
C13_Witness ==
    /\ pc = "returned"
    /\ executed = <<"ratelimit", "ratelimit", "ratelimit">>
    /\ steps = 3
    /\ state.results = <<>>

HasFilename(st) == "filename" \in DOMAIN Get(st, "current_post", EmptyDict)

\* C14 (as claimed): every run that ended with completed = true has a filename
\* assigned to current_post.
C14_CompletedRunHasFilename ==
    (pc = "END" /\ Get(state, "completed", FALSE) = TRUE) => HasFilename(state)

\* C14 (amended): a run that ended with completed = true either was saved and has one
\* filename, assigned once in the run, by save, or was flagged duplicate by analyze and
\* has none; completed is true only in a run that ended.
C14_SavedRunHasOneFilename ==
    /\ [](Get(state, "completed", FALSE) = TRUE =>
            /\ pc = "END"
            /\ \/ Status(state) = "saved" /\ HasFilename(state) /\ Count(executed, "save") = 1
               \/ Status(state) = "duplicate" /\ ~HasFilename(state) /\ Count(executed, "save") = 0)
    /\ [](HasFilename(state) => Status(state) = "saved")
    /\ [][run' = run =>
            \/ Get(state'.current_post, "filename", <<>>) = Get(state.current_post, "filename", <<>>)
            \/ pc = "save" /\ ~HasFilename(state) /\ HasFilename(state')]_vars

\* a run saved after a revision: save ran once and the filename is set
C14_Witness ==
    /\ pc = "END"
    /\ state.completed
    /\ Status(state) = "saved"
    /\ HasFilename(state)
    /\ Count(executed, "generate") >= 2
    /\ Count(executed, "save") = 1

IsBlank(line) == strip(line) = <<>>

IsNotBlank(line) == ~IsBlank(line)

\* the non-blank lines of a text, each without the whitespace around it
TextLines(text) ==
    LET Trimmed(lines) == [k \in 1..Len(lines) |-> strip(lines[k])]
    IN  Trimmed(SelectSeq(split_lines(text), IsNotBlank))

IsNotImageLine(line) == startswith(line, <<"!", "[">>) = FALSE

\* the text without the lines of the inserted image blocks
WithoutImages(text) == join_lines(SelectSeq(split_lines(text), IsNotImageLine))

\* C15: split_content_into_sections followed by insert_local_images_between_sections
\* gives a text that, without the inserted image blocks, has the non-blank lines of the
\* content, each once and in the content's order (whitespace around them aside), and
\* at most min(3, images, sections - 1) image blocks.
C15_SectionsRoundTrip ==
    pc = "inserted" =>
        /\ TextLines(WithoutImages(state.content_with_images)) = TextLines(state.content)
        /\ Len(TextLines(state.content_with_images)) - Len(TextLines(state.content))
              = Min({3, Len(state.local_images), Max({0, Len(state.sections) - 1})})

\* three sections, four images on offer, two inserted
C15_Witness ==
    /\ pc = "inserted"
    /\ Len(state.sections) = 3
    /\ Len(state.local_images) = 4
    /\ Len(TextLines(state.content_with_images)) = 5

\* C16: when the task without its style reference contains a product keyword,
\* product_name is not empty and is at most 5 consecutive words of that text, joined
\* by spaces, one of them a word containing a keyword the text contains.
C16_KeywordWindow ==
    pc = "analyzed" =>
        LET stripped == strip_style_reference(state.task)
            keywords == {k \in 1..Len(product_keywords) : Contains(stripped, product_keywords[k])}
            InWindow(words) ==
                \E a \in 1..Len(words), b \in 1..Len(words) :
                    /\ a <= b
                    /\ b - a + 1 <= 5
                    /\ state.product_name = join(SubSeq(words, a, b))
                    /\ \E i \in a..b, k \in keywords : Contains(words[i], product_keywords[k])
        IN  keywords # {} => (state.product_name # <<>> /\ InWindow(split(stripped)))

\* a task of six words, the keyword in the third: the window is four words long
C16_Witness ==
    /\ pc = "analyzed"
    /\ state.task = join(<<<<"a">>, <<"a">>, <<"M", "X">>, <<"a">>, <<"a">>, <<"a">>>>) \o TaskSuffix
    /\ state.product_name = join(<<<<"a">>, <<"M", "X">>, <<"a">>, <<"a">>>>)

HasStyleAnnotation(task) == extract_style_reference(task) # EmptyDict

\* C17 (as claimed): for a task with a style-reference annotation, the text used for
\* the product name and the task text of the prompt are free of the annotation, and the
\* reference analyze recorded is in the state generate_content reads, so that the style
\* hint is built from it.
C17_StyleReferenceReachesGenerate ==
    (pc = "generate" /\ HasStyleAnnotation(state.task)) =>
        /\ ~HasStyleAnnotation(cleaned_task(state))
        /\ ~Contains(state.product_name, <<"@">>)
        /\ Get(state, "style_reference", EmptyDict) = extract_style_reference(state.task)
        /\ style_note(state)

\* C18 (as claimed): when collect_images has run, state.images holds at most 3 image
\* references and nothing has been downloaded.
C18_AtMostThreeImages ==
    (executed # <<>> /\ executed[Len(executed)] = "collect_images") =>
        /\ Len(state.images) <= 3
        /\ "local_images" \notin DOMAIN state

\* C19 (as claimed): in the basic workflow a run in which no call raised ends saved,
\* however often the generated content is shorter than 100 characters: the revise loop
\* stops after a fixed number of rounds and the run goes on to markdown and save.
C19_BasicRunEndsSaved ==
    (pc \in {"END", "raised"} /\ error # "llm") => Status(state) = "saved"

C21_GenerateLoop ==
    /\ state.invoked <= 3
    /\ pc = "review" =>
        /\ state.invoked \in 1..3
        /\ Len(executed) = state.invoked
        /\ \A k \in 1..(state.invoked - 1) : ~passes_quality_gates(executed[k])
        /\ state.invoked < 3 => passes_quality_gates(executed[state.invoked])
        /\ state.st.current_post.content = executed[state.invoked]
        /\ state.st.current_post.status = "generated"

\* the third text did not pass and was kept
C21_Witness ==
    /\ pc = "review"
    /\ state.invoked = 3
    /\ ~passes_quality_gates(state.st.current_post.content)
    /\ state.st.current_post.status = "generated"

\* the second text passed and ended the loop
C21_WitnessEarly ==
    /\ pc = "review"
    /\ state.invoked = 2
    /\ passes_quality_gates(state.st.current_post.content)

C23_ImagesBetweenSections ==
    pc = "inserted" =>
        LET s == Len(state.sections)
            m == Len(state.local_images)
            n == Min({m, 3, Max({s - 1, 0})})
            Expected(p) ==
                IF p = 1 THEN SectionBlock(state.sections[1])
                ELSE IF p <= 2 * n + 1
                THEN IF p % 2 = 0 THEN ImageBlock(state.local_images[p \div 2])
                     ELSE SectionBlock(state.sections[(p + 1) \div 2])
                ELSE SectionBlock(state.sections[p - n])
        IN  /\ Len(state.result) = s + n
            /\ \A p \in 1..(s + n) : state.result[p] = Expected(p)

\* five sections and five images: three images go in, the fifth section follows the
\* fourth
C23_Witness ==
    /\ pc = "inserted"
    /\ Len(state.sections) = 5
    /\ Len(state.local_images) = 5
    /\ Len(state.result) = 8
    /\ state.result[7].kind = "section"
    /\ state.result[8].kind = "section"

\* what C24 says of the stages one by one: with DISABLE_WEB_SEARCH = "1" the search
\* results are the five empty lists, state.images is empty once collect_images ran, the
\* review never fails the sources check, and no recorded product lacks its categories
C24_EmptyResultsTolerated ==
    (env.DISABLE_WEB_SEARCH = "1" /\ pc \in Nodes \cup {"END", "raised"}) =>
        /\ Count(executed, "research") > 0 =>
              state.search_results = NoResults(state.product_name)
        /\ Count(executed, "collect_images") > 0 => state.images = <<>>
        /\ last_review.done => "sources_used" \notin last_review.failed
        /\ Status(state) = "saved" => state.local_images = <<>>

\* C24 (as claimed): with DISABLE_WEB_SEARCH = "1" the stages run on the all-empty
\* results as above, and a run that analyze did not flag as duplicate and in which no
\* external call raised ends with status saved.
C24_SearchDisabledRunEndsSaved ==
    /\ C24_EmptyResultsTolerated
    /\ (/\ env.DISABLE_WEB_SEARCH = "1"
        /\ pc \in {"END", "raised"}
        /\ error \notin {"llm", "makedirs"}
        /\ Status(state) # "duplicate")
       => Status(state) = "saved"

\* both loads of the two add_review_record calls came before either save
BothLoadedFirst == Len(executed) >= 2 /\ executed[1].op = "load" /\ executed[2].op = "load"

\* C25: nothing locks the ledger.  With no I/O failure, when both processes have
\* loaded the ledger before either saved, the ledger after both saves is the stored
\* one plus the record of the process that saved last, and the other record is lost;
\* when one call ended before the other began, both records are there, in the order of
\* the calls.
C25_LostUpdate ==
    (faults = 0 /\ \A p \in Writers : state[p].at = "done") =>
        LET last == executed[4].by
        IN  IF BothLoadedFirst
            THEN ledger = Append(run_start.ledger, state[last].new_review)
            ELSE ledger = run_start.ledger
                            \o <<state[3 - last].new_review, state[last].new_review>>

\* two different products saved by overlapping calls: one record stored, the first
\* writer's record gone
C25_Witness ==
    /\ faults = 0
    /\ \A p \in Writers : state[p].at = "done"
    /\ BothLoadedFirst
    /\ executed[3].by = 1
    /\ state[1].new_review # state[2].new_review
    /\ Len(ledger) = Len(run_start.ledger) + 1
    /\ \A i \in 1..Len(ledger) : ledger[i] # state[1].new_review

\* C26 (as claimed): every record of the ledger names a post file that was written to
\* the post store.
C26_LedgerFilesExist ==
    \A i \in 1..Len(ledger) : ledger[i].filename \in posts

\* C27 (as claimed): in one run generate executes at most 3 times and review at most 3
\* times, each execution of generate makes at most 3 calls of the generator, and
\* markdown and save execute at most once each.
C27_StageCounts ==
    /\ Count(executed, "generate") <= 3
    /\ Count(executed, "review") <= 3
    /\ llm_calls <= 3
    /\ Count(executed, "markdown") <= 1
    /\ Count(executed, "save") <= 1

\* C28: when the product name analyze_task extracted is empty or blank (as for the task
\* that is only the request to write a review), or a record of the ledger has an
\* empty, blank or missing product name, is_product_already_reviewed answers yes for
\* every ledger that is not empty, and the run is flagged duplicate and ends unless
\* FORCE_REGENERATE is "1"; on the empty ledger it answers no and the run goes on.
C28_BlankNameMatchesEverything ==
    executed = <<"analyze">> =>
        LET blank_name == strip(state.product_name) = <<>>
            blank_record ==
                \E i \in 1..Len(ledger) : strip(Get(ledger[i], "product_name", <<>>)) = <<>>
        IN  /\ state.task \in {Review \o <<" ">> \o Write, TaskSuffix, <<" ">> \o TaskSuffix}
                => state.product_name = <<>>
            /\ ((blank_name \/ blank_record) /\ ledger # <<>>) =>
                /\ verdict = "yes"
                /\ env.FORCE_REGENERATE # "1" =>
                      (Status(state) = "duplicate" /\ state.completed /\ pc = "END")
                /\ env.FORCE_REGENERATE = "1" =>
                      (Status(state) = "analyzing" /\ pc = "research")
            /\ ledger = <<>> =>
                (verdict = "no" /\ Status(state) = "analyzing" /\ pc = "research")

\* the bare request on a ledger whose one record is another product: flagged duplicate
C28_Witness ==
    /\ executed = <<"analyze">>
    /\ state.task = Review \o <<" ">> \o Write
    /\ state.product_name = <<>>
    /\ ledger = <<OtherRecord>>
    /\ env.FORCE_REGENERATE = ""
    /\ Status(state) = "duplicate"

\* a named product on a ledger that holds a record without product_name
C28_WitnessRecord ==
    /\ executed = <<"analyze">>
    /\ state.product_name = <<"a">>
    /\ \E i \in 1..Len(ledger) : "product_name" \notin DOMAIN ledger[i]
    /\ Status(state) = "duplicate"

\* C29 (as claimed): in ReviewWorkflow a recorded error is never masked.  Once a node
\* has failed the status is error from then on, and a final status of completed means
\* the error field is empty and all five nodes succeeded.
C29_ErrorNeverMasked ==
    /\ (\E i \in 1..Len(executed) : ~executed[i].ok) => state.status = "error"
    /\ (pc = "END" /\ state.status = "completed") =>
        /\ state.error = ""
        /\ \A i \in 1..Len(executed) : executed[i].ok

\* C30: with the LLM enabled the content checks of review_content decide what
\* passes_quality_gates decides.  A review of a text fails a content check exactly when
\* the gate rejects the text, and agrees with every gate evaluation of the same text; a
\* text the gate accepts fails the review on nothing but sources_used, and with
\* basic_info not empty it passes: no check fails, revision_count stays and
\* needs_revision is false.
C30_ReviewChecksAreTheGate ==
    /\ \A i \in DOMAIN executed :
        (executed[i].gate = "review_content" /\ executed[i].read.environ.DISABLE_LLM # "1") =>
            /\ (executed[i].failed \ {"sources_used"} = {})
                  = passes_quality_gates(executed[i].read.content)
            /\ \A j \in DOMAIN executed :
                (/\ executed[j].gate = "passes_quality_gates"
                 /\ executed[j].read.content = executed[i].read.content)
                => (executed[j].result = "yes") = (executed[i].failed \ {"sources_used"} = {})
            /\ (/\ passes_quality_gates(executed[i].read.content)
                /\ Len(executed[i].read.search_results.basic_info) > 0)
               => /\ executed[i].failed = {}
                  /\ executed[i].left.revision_count = executed[i].read.revision_count
    /\ (/\ executed # <<>>
        /\ executed[Len(executed)].gate = "review_content"
        /\ env.DISABLE_LLM # "1"
        /\ passes_quality_gates(executed[Len(executed)].read.content)
        /\ Len(state.search_results.basic_info) > 0)
       => state.current_post.needs_revision = FALSE

\* a text the gate accepted, reviewed with the LLM enabled and nothing found by the
\* search: only sources_used fails
C30_Witness ==
    /\ Len(executed) = 2
    /\ executed[1].gate = "passes_quality_gates"
    /\ executed[1].result = "yes"
    /\ executed[2].gate = "review_content"
    /\ executed[2].read.content = executed[1].read.content
    /\ env.DISABLE_LLM # "1"
    /\ executed[2].failed = {"sources_used"}

\* a text the gate accepted passes the review when the search found something
C30_WitnessPasses ==
    /\ Len(executed) = 2
    /\ executed[1].gate = "passes_quality_gates"
    /\ executed[1].result = "yes"
    /\ executed[2].gate = "review_content"
    /\ executed[2].read.content = executed[1].read.content
    /\ env.DISABLE_LLM # "1"
    /\ Len(state.search_results.basic_info) > 0
    /\ state.current_post.needs_revision = FALSE

====
